---- MODULE Spec2Model ----
(***************************************************************************)
(* State-machine model of mcp_agent.py: the Streamlit form controller, the *)
(* input validators, the prompt templates and the agent invoker            *)
(* run_github_agent.                                                       *)
(*                                                                         *)
(* Text that the code inspects character by character (the repository      *)
(* reference, the query) is a sequence of one-character strings.  Opaque   *)
(* text (credentials, exception details, the agent's answer) is a string.  *)
(* The emoji that open the user-facing messages are left out of the        *)
(* literals; the rest of each message is the code's.                       *)
(***************************************************************************)
EXTENDS Naturals, Sequences, FiniteSets, TLC

\* Python's None.
None == "<None>"

(***************************************************************************)
(* Bounds                                                                  *)
(***************************************************************************)
\* longest repository string enumerated for validate_repo_format
MaxRepoLen == 4
\* longest query / repository reference enumerated for the injection step
MaxQueryLen == 4
MaxRefLen == 4

(***************************************************************************)
(* Characters and strings                                                  *)
(***************************************************************************)
Letters ==
    {"a", "b", "c", "d", "e", "f", "g", "h", "i", "j", "k", "l", "m",
     "n", "o", "p", "q", "r", "s", "t", "u", "v", "w", "x", "y", "z",
     "A", "B", "C", "D", "E", "F", "G", "H", "I", "J", "K", "L", "M",
     "N", "O", "P", "Q", "R", "S", "T", "U", "V", "W", "X", "Y", "Z"}

Digits == {"0", "1", "2", "3", "4", "5", "6", "7", "8", "9"}

\* regex \w on the characters modelled
IsWord(c) == c \in Letters \cup Digits \cup {"_"}

\* str.strip() removes these
IsSpace(c) == c \in {" ", "\n"}

\* all sequences over alphabet A of length at most n
StringsUpTo(A, n) == UNION {[1..k -> A] : k \in 0..n}

\* Python's `needle in hay` on strings
Contains(hay, needle) ==
    \E i \in 0..(Len(hay) - Len(needle)) :
        \A j \in 1..Len(needle) : hay[i + j] = needle[j]

\* number of (possibly overlapping) places where needle occurs in hay
Occurrences(hay, needle) ==
    Cardinality({i \in 0..(Len(hay) - Len(needle)) :
                    \A j \in 1..Len(needle) : hay[i + j] = needle[j]})

(***************************************************************************)
(* String literals of the source                                           *)
(***************************************************************************)
\* "Find issues labeled as bugs"
T_Issues ==
    <<"F", "i", "n", "d", " ", "i", "s", "s", "u", "e", "s", " ", "l", "a", "b", "e", "l", "e", "d", " ", "a", "s", " ", "b", "u", "g", "s">>
\* "Show me recent merged PRs"
T_PullRequests ==
    <<"S", "h", "o", "w", " ", "m", "e", " ", "r", "e", "c", "e", "n", "t", " ", "m", "e", "r", "g", "e", "d", " ", "P", "R", "s">>
\* "Analyze workflow runs and identify any failures"
T_Actions ==
    <<"A", "n", "a", "l", "y", "z", "e", " ", "w", "o", "r", "k", "f", "l", "o", "w", " ", "r", "u", "n", "s", " ", "a", "n", "d", " ", "i", "d", "e", "n", "t", "i", "f", "y", " ", "a", "n", "y", " ", "f", "a", "i", "l", "u", "r", "e", "s">>
\* "Search for TODO comments"
T_CodeSearch ==
    <<"S", "e", "a", "r", "c", "h", " ", "f", "o", "r", " ", "T", "O", "D", "O", " ", "c", "o", "m", "m", "e", "n", "t", "s">>
\* "List all stale branches (no activity in 60 days)"
T_BranchesScoped ==
    <<"L", "i", "s", "t", " ", "a", "l", "l", " ", "s", "t", "a", "l", "e", " ", "b", "r", "a", "n", "c", "h", "e", "s", " ", "(", "n", "o", " ", "a", "c", "t", "i", "v", "i", "t", "y", " ", "i", "n", " ", "6", "0", " ", "d", "a", "y", "s", ")">>
\* "List all stale branches"
T_Branches ==
    <<"L", "i", "s", "t", " ", "a", "l", "l", " ", "s", "t", "a", "l", "e", " ", "b", "r", "a", "n", "c", "h", "e", "s">>
\* "Show commit patterns and top contributors"
T_Commits ==
    <<"S", "h", "o", "w", " ", "c", "o", "m", "m", "i", "t", " ", "p", "a", "t", "t", "e", "r", "n", "s", " ", "a", "n", "d", " ", "t", "o", "p", " ", "c", "o", "n", "t", "r", "i", "b", "u", "t", "o", "r", "s">>
\* "Show recent releases and generate changelog"
T_ReleasesScoped ==
    <<"S", "h", "o", "w", " ", "r", "e", "c", "e", "n", "t", " ", "r", "e", "l", "e", "a", "s", "e", "s", " ", "a", "n", "d", " ", "g", "e", "n", "e", "r", "a", "t", "e", " ", "c", "h", "a", "n", "g", "e", "l", "o", "g">>
\* "Show recent releases"
T_Releases ==
    <<"S", "h", "o", "w", " ", "r", "e", "c", "e", "n", "t", " ", "r", "e", "l", "e", "a", "s", "e", "s">>
\* "Analyze code quality trends"
T_Activity ==
    <<"A", "n", "a", "l", "y", "z", "e", " ", "c", "o", "d", "e", " ", "q", "u", "a", "l", "i", "t", "y", " ", "t", "r", "e", "n", "d", "s">>
\* " in "
InSep ==
    <<" ", "i", "n", " ">>
\* "octocat/Hello-World"
RepoOctocat ==
    <<"o", "c", "t", "o", "c", "a", "t", "/", "H", "e", "l", "l", "o", "-", "W", "o", "r", "l", "d">>
\* "octocat"
RepoNoSlash ==
    <<"o", "c", "t", "o", "c", "a", "t">>
\* "Summarize last 5 commits"
QuerySummarize ==
    <<"S", "u", "m", "m", "a", "r", "i", "z", "e", " ", "l", "a", "s", "t", " ", "5", " ", "c", "o", "m", "m", "i", "t", "s">>
\* "List open PRs of octocat/Hello-World"
QueryMentionsRepo ==
    <<"L", "i", "s", "t", " ", "o", "p", "e", "n", " ", "P", "R", "s", " ", "o", "f", " ", "o", "c", "t", "o", "c", "a", "t", "/", "H", "e", "l", "l", "o", "-", "W", "o", "r", "l", "d">>

(***************************************************************************)
(* validate_repo_format                                                    *)
(***************************************************************************)
MsgRepoEmpty == "Repository cannot be empty"
MsgRepoFormat == "Repository must be in format 'owner/repo' (e.g., 'octocat/Hello-World')"

\* [\w-]
OwnerChar(c) == IsWord(c) \/ c = "-"
\* [\w.-]
NameChar(c) == IsWord(c) \/ c \in {".", "-"}

\* s[1..n] is matched by [\w-]+/[\w.-]+
OwnerSlashName(s, n) ==
    \E k \in 2..(n - 1) :
        /\ s[k] = "/"
        /\ \A i \in 1..(k - 1) : OwnerChar(s[i])
        /\ \A i \in (k + 1)..n : NameChar(s[i])

\* re.match(r'^[\w-]+/[\w.-]+$', repo): without re.MULTILINE, $ matches at
\* the end of the string and also just before a newline that ends the string.
RegexMatch(repo) ==
    \/ OwnerSlashName(repo, Len(repo))
    \/ /\ Len(repo) >= 1
       /\ repo[Len(repo)] = "\n"
       /\ OwnerSlashName(repo, Len(repo) - 1)

validate_repo_format(repo) ==
    IF repo = <<>> \/ (\A i \in 1..Len(repo) : IsSpace(repo[i]))
    THEN [valid |-> FALSE, error |-> MsgRepoEmpty]
    ELSE IF ~RegexMatch(repo)
         THEN [valid |-> FALSE, error |-> MsgRepoFormat]
         ELSE [valid |-> TRUE, error |-> None]

(***************************************************************************)
(* check_docker_available                                                  *)
(***************************************************************************)
\* what `docker ps` does when it is run: exit 0, a non-zero exit, executable
\* missing (FileNotFoundError), no answer within the timeout
\* (subprocess.TimeoutExpired), any other exception
DockerStates == {"running", "stopped", "missing", "hung", "broken"}

MsgDockerNotRunning == "Docker is installed but not running. Please start Docker Desktop."
MsgDockerNotInstalled == "Docker is not installed. Please install Docker Desktop from https://www.docker.com/products/docker-desktop"
MsgDockerTimedOut == "Docker check timed out. Docker may be unresponsive."
MsgDockerError == "Error checking Docker: "

check_docker_available(docker) ==
    CASE docker = "running" -> [available |-> TRUE, error |-> None]
      [] docker = "stopped" -> [available |-> FALSE, error |-> MsgDockerNotRunning]
      [] docker = "missing" -> [available |-> FALSE, error |-> MsgDockerNotInstalled]
      [] docker = "hung"    -> [available |-> FALSE, error |-> MsgDockerTimedOut]
      [] OTHER              -> [available |-> FALSE, error |-> MsgDockerError]

(***************************************************************************)
(* Query templates and the suffix injection                                *)
(***************************************************************************)
QueryTypes ==
    {"Issues", "Pull Requests", "GitHub Actions/CI/CD", "Code Search",
     "Branch Analysis", "Commit History", "Releases", "Repository Activity",
     "Custom"}

\* the text of the template used when a repository is entered
ScopedText(query_type) ==
    CASE query_type = "Issues"               -> T_Issues
      [] query_type = "Pull Requests"        -> T_PullRequests
      [] query_type = "GitHub Actions/CI/CD" -> T_Actions
      [] query_type = "Code Search"          -> T_CodeSearch
      [] query_type = "Branch Analysis"      -> T_BranchesScoped
      [] query_type = "Commit History"       -> T_Commits
      [] query_type = "Releases"             -> T_ReleasesScoped
      [] query_type = "Repository Activity"  -> T_Activity
      [] OTHER                               -> <<>>

\* the template used when no repository is entered
UnscopedText(query_type) ==
    CASE query_type = "Issues"               -> T_Issues
      [] query_type = "Pull Requests"        -> T_PullRequests
      [] query_type = "GitHub Actions/CI/CD" -> T_Actions
      [] query_type = "Code Search"          -> T_CodeSearch
      [] query_type = "Branch Analysis"      -> T_Branches
      [] query_type = "Commit History"       -> T_Commits
      [] query_type = "Releases"             -> T_Releases
      [] query_type = "Repository Activity"  -> T_Activity
      [] OTHER                               -> <<>>

\* variant: the repository-scoped template built from the unscoped text
query_templateFromUnscoped(query_type, repo) ==
    IF query_type = "Custom"
    THEN <<>>
    ELSE IF repo # <<>>
         THEN UnscopedText(query_type) \o InSep \o repo
         ELSE UnscopedText(query_type)

query_template(query_type, repo) ==
    IF query_type = "Custom"
    THEN <<>>
    ELSE IF repo # <<>>
         THEN ScopedText(query_type) \o InSep \o repo
         ELSE UnscopedText(query_type)

\* variant: the suffix appended without looking for the reference
InjectRepoAlways(query, repo) ==
    IF repo # <<>>
    THEN query \o InSep \o repo
    ELSE query

\* lines 316-319: full_query
InjectRepo(query, repo) ==
    IF repo # <<>> /\ ~Contains(query, repo)
    THEN query \o InSep \o repo
    ELSE query

(***************************************************************************)
(* The Run Query button handler's checks                                   *)
(***************************************************************************)
ErrNoOpenAIKey == <<"Please enter your OpenAI API key in the sidebar">>
ErrNoGitHubToken == <<"Please enter your GitHub token in the sidebar">>
ErrNoDocker == <<"Docker is not available. Please ensure Docker is installed and running.">>
ErrNoQuery == <<"Please enter a query">>
ErrBadRepo(error_msg) == <<"Invalid repository format: ", error_msg>>
NoError == <<>>
\* no message: the invoker's credential check passed
NoMessage == <<>>

\* variant: the query checked before the tool availability
RunQueryQueryBeforeDocker(openai_key, github_token, docker_available, query, repo) ==
    IF openai_key = "" THEN [error |-> ErrNoOpenAIKey, invoke |-> FALSE, message |-> <<>>]
    ELSE IF github_token = "" THEN [error |-> ErrNoGitHubToken, invoke |-> FALSE, message |-> <<>>]
    ELSE IF query = <<>> THEN [error |-> ErrNoQuery, invoke |-> FALSE, message |-> <<>>]
    ELSE IF ~docker_available THEN [error |-> ErrNoDocker, invoke |-> FALSE, message |-> <<>>]
    ELSE IF repo # <<>>
         THEN IF ~validate_repo_format(repo).valid
              THEN [error |-> ErrBadRepo(validate_repo_format(repo).error),
                    invoke |-> FALSE, message |-> <<>>]
              ELSE [error |-> NoError, invoke |-> TRUE, message |-> InjectRepo(query, repo)]
         ELSE [error |-> NoError, invoke |-> TRUE, message |-> query]

\* variant: the suffix clause formatted in both branches
RunQuerySuffixInBothBranches(openai_key, github_token, docker_available, query, repo) ==
    IF openai_key = "" THEN [error |-> ErrNoOpenAIKey, invoke |-> FALSE, message |-> <<>>]
    ELSE IF github_token = "" THEN [error |-> ErrNoGitHubToken, invoke |-> FALSE, message |-> <<>>]
    ELSE IF ~docker_available THEN [error |-> ErrNoDocker, invoke |-> FALSE, message |-> <<>>]
    ELSE IF query = <<>> THEN [error |-> ErrNoQuery, invoke |-> FALSE, message |-> <<>>]
    ELSE IF repo # <<>>
         THEN IF ~validate_repo_format(repo).valid
              THEN [error |-> ErrBadRepo(validate_repo_format(repo).error),
                    invoke |-> FALSE, message |-> <<>>]
              ELSE [error |-> NoError, invoke |-> TRUE, message |-> InjectRepo(query, repo)]
         ELSE [error |-> NoError, invoke |-> TRUE, message |-> query \o InSep \o repo]

\* The if/elif chain of lines 300-329: the error shown, or the message the
\* invoker is called with.
RunQuery(openai_key, github_token, docker_available, query, repo) ==
    IF openai_key = "" THEN [error |-> ErrNoOpenAIKey, invoke |-> FALSE, message |-> <<>>]
    ELSE IF github_token = "" THEN [error |-> ErrNoGitHubToken, invoke |-> FALSE, message |-> <<>>]
    ELSE IF ~docker_available THEN [error |-> ErrNoDocker, invoke |-> FALSE, message |-> <<>>]
    ELSE IF query = <<>> THEN [error |-> ErrNoQuery, invoke |-> FALSE, message |-> <<>>]
    ELSE IF repo # <<>>
         THEN IF ~validate_repo_format(repo).valid
              THEN [error |-> ErrBadRepo(validate_repo_format(repo).error),
                    invoke |-> FALSE, message |-> <<>>]
              ELSE [error |-> NoError, invoke |-> TRUE, message |-> InjectRepo(query, repo)]
         ELSE [error |-> NoError, invoke |-> TRUE, message |-> query]

(***************************************************************************)
(* run_github_agent: messages and the except chain                         *)
(***************************************************************************)
MsgNoToken == <<"Error: GitHub token not provided. Please enter your token in the sidebar.">>
MsgNoKey == <<"Error: OpenAI API key not provided. Please enter your API key in the sidebar.">>
MsgTimeout == <<"Error: Request timed out after 120 seconds. Try a simpler query or check your connection.">>
MsgConnection(d) == <<"Error: Connection failed. Please check your internet connection.\nDetails: ", d>>
MsgNoDockerCommand == <<"Error: Docker command not found. Please ensure Docker is installed and in your PATH.">>
MsgPermission(d) == <<"Error: Permission denied. Docker may need elevated privileges.\nDetails: ", d>>
MsgValue(d) == <<"Error: Invalid configuration or parameters.\nDetails: ", d>>
MsgKey(d) == <<"Error: Missing required configuration.\nDetails: ", d>>
MsgUnexpected(t, d) ==
    <<"Unexpected error (", t, "): ", d,
      "\n\nPlease check:\n- Docker is running\n- Your tokens are valid\n- The repository exists and is accessible">>

\* Exception classes that the collaborators raise in the model, with their
\* base class in Python's hierarchy (asyncio.TimeoutError is TimeoutError).
ExcTypes ==
    {"TimeoutError", "ConnectionError", "ConnectionRefusedError",
     "FileNotFoundError", "PermissionError", "ValueError", "KeyError",
     "OSError", "RuntimeError"}

BaseOf(t) ==
    CASE t = "TimeoutError"           -> "OSError"
      [] t = "ConnectionError"        -> "OSError"
      [] t = "ConnectionRefusedError" -> "ConnectionError"
      [] t = "FileNotFoundError"      -> "OSError"
      [] t = "PermissionError"        -> "OSError"
      [] t = "OSError"                -> "Exception"
      [] t = "ValueError"             -> "Exception"
      [] t = "KeyError"               -> "LookupError"
      [] t = "LookupError"            -> "Exception"
      [] t = "RuntimeError"           -> "Exception"
      [] OTHER                        -> "BaseException"

RECURSIVE IsInstance(_, _)
IsInstance(t, cls) ==
    IF t = cls THEN TRUE
    ELSE IF t = "BaseException" THEN FALSE
    ELSE IsInstance(BaseOf(t), cls)

\* str(e) of the exceptions raised
Details == {"d1"}
Exceptions == [type : ExcTypes, detail : Details]

\* no except clause matches: the exception leaves run_github_agent
Uncaught == <<"<uncaught>">>

\* variant: the KeyError clause left out
ExceptMessageNoKeyError(e) ==
    IF IsInstance(e.type, "TimeoutError") THEN MsgTimeout
    ELSE IF IsInstance(e.type, "ConnectionError") THEN MsgConnection(e.detail)
    ELSE IF IsInstance(e.type, "FileNotFoundError") THEN MsgNoDockerCommand
    ELSE IF IsInstance(e.type, "PermissionError") THEN MsgPermission(e.detail)
    ELSE IF IsInstance(e.type, "ValueError") THEN MsgValue(e.detail)
    ELSE IF IsInstance(e.type, "Exception") THEN MsgUnexpected(e.type, e.detail)
    ELSE Uncaught

\* the except clauses of lines 282-296, tried in the code's order
ExceptMessage(e) ==
    IF IsInstance(e.type, "TimeoutError") THEN MsgTimeout
    ELSE IF IsInstance(e.type, "ConnectionError") THEN MsgConnection(e.detail)
    ELSE IF IsInstance(e.type, "FileNotFoundError") THEN MsgNoDockerCommand
    ELSE IF IsInstance(e.type, "PermissionError") THEN MsgPermission(e.detail)
    ELSE IF IsInstance(e.type, "ValueError") THEN MsgValue(e.detail)
    ELSE IF IsInstance(e.type, "KeyError") THEN MsgKey(e.detail)
    ELSE IF IsInstance(e.type, "Exception") THEN MsgUnexpected(e.type, e.detail)
    ELSE Uncaught

\* variant: only the provider key checked
MissingCredentialKeyOnly(env_github, env_openai) ==
    IF env_openai = "" THEN MsgNoKey
    ELSE NoMessage

\* lines 189-193: the message returned before anything is launched, if any
MissingCredential(env_github, env_openai) ==
    IF env_github = "" THEN MsgNoToken
    ELSE IF env_openai = "" THEN MsgNoKey
    ELSE NoMessage

(***************************************************************************)
(* State                                                                   *)
(***************************************************************************)
VARIABLES
    \* st.session_state
    ss_openai_key, ss_github_token, docker_checked, docker_available,
    \* os.environ
    env_OPENAI_API_KEY, env_GITHUB_TOKEN,
    \* the container runtime, as `docker ps` finds it
    docker,
    \* the script run's locals: widget values and what the run displays
    openai_key, github_token, repo, query_type, query, edited, clicked,
    sidebar_error, shown_error, result,
    \* history: os.environ["GITHUB_TOKEN"] as it was when the script run that
    \* calls run_github_agent started
    env_token_before,
    \* run_github_agent: position, argument, the outcome leaving the
    \* async-with body, the exception an except clause caught
    pc, message, pending, caught,
    \* the tool-server subprocess of the invocation: launches attempted,
    \* sessions released, whether it is alive, the token it was given
    spawned, released, live, server_token,
    \* whether asyncio.wait_for timed out; whether __aexit__ raised
    timed_out, exit_raised,
    \* inputs of the function-level specifications
    fn_repo, fn_query, fn_out, fn_again, fn_pc

sessionVars == <<ss_openai_key, ss_github_token, docker_checked, docker_available>>
envVars == <<env_OPENAI_API_KEY, env_GITHUB_TOKEN>>
localVars == <<openai_key, github_token, repo, query_type, query, edited, clicked,
               sidebar_error, shown_error, env_token_before>>
invokerVars == <<message, pending, caught, spawned, released, live, server_token,
                 timed_out, exit_raised>>
fnVars == <<fn_repo, fn_query, fn_out, fn_again, fn_pc>>
vars == <<sessionVars, envVars, docker, localVars, result, pc, invokerVars, fnVars>>

NoOutcome == [kind |-> "none", type |-> "", detail |-> "", content |-> ""]
NoException == [type |-> "", detail |-> ""]
NoResult == <<>>

\* what the user can have in the form when a script run starts
OpenAIKeys == {"", "k1"}
GitHubTokens == {"", "g1", "g2"}
Repos == {<<>>, RepoOctocat, RepoNoSlash}
\* the text area: left as the template, or replaced by one of these
Unedited == <<"<unedited>">>
Edits == {Unedited, <<>>, QuerySummarize, QueryMentionsRepo}
\* what the process environment can hold when the app starts: a token
\* exported in the shell, or nothing
PresetOpenAI == {""}
PresetGitHub == {"", "g0"}
\* the agent's answers
AgentTexts == {"answer"}

LocalsInit ==
    /\ openai_key = ""
    /\ github_token = ""
    /\ repo = <<>>
    /\ query_type = "Issues"
    /\ query = <<>>
    /\ edited = FALSE
    /\ clicked = FALSE
    /\ sidebar_error = None
    /\ shown_error = NoError
    /\ env_token_before = ""
    /\ result = NoResult

InvokerInit ==
    /\ message = <<>>
    /\ pending = NoOutcome
    /\ caught = NoException
    /\ spawned = 0
    /\ released = 0
    /\ live = FALSE
    /\ server_token = ""
    /\ timed_out = FALSE
    /\ exit_raised = FALSE

FnIdle ==
    /\ fn_repo = <<>>
    /\ fn_query = <<>>
    /\ fn_out = <<>>
    /\ fn_again = <<>>
    /\ fn_pc = "off"

\* lines 54-61; the environment is the one the process was started in
Init ==
    /\ ss_openai_key = ""
    /\ ss_github_token = ""
    /\ docker_checked = FALSE
    /\ docker_available = FALSE
    /\ env_OPENAI_API_KEY \in PresetOpenAI
    /\ env_GITHUB_TOKEN \in PresetGitHub
    /\ docker \in DockerStates
    /\ LocalsInit
    /\ InvokerInit
    /\ pc = "idle"
    /\ FnIdle

(***************************************************************************)
(* One run of the script, up to the call of run_github_agent               *)
(***************************************************************************)
\* variant: the value stored once and never replaced
SidebarStoreFirstOnly(old, entered) == IF old = "" THEN entered ELSE old

\* lines 77-79 and 87-89: a non-empty entry replaces the stored value
SidebarStore(old, entered) == IF entered # "" THEN entered ELSE old

\* lines 92-105: the flag after the sidebar's status check.  The runtime is
\* asked only while the flag is not set.
SidebarDockerFlag(checked, available, d) ==
    LET first == IF ~checked THEN check_docker_available(d).available ELSE available
    IN  IF first THEN TRUE ELSE check_docker_available(d).available

SidebarDockerError(checked, available, d) ==
    IF SidebarDockerFlag(checked, available, d) THEN None
    ELSE check_docker_available(d).error

ScriptRun(ok, gt, r, qt, edit, click, d) ==
    /\ pc = "idle"
    /\ docker' = d
    /\ openai_key' = ok
    /\ github_token' = gt
    /\ ss_openai_key' = SidebarStore(ss_openai_key, ok)
    /\ env_OPENAI_API_KEY' = SidebarStore(env_OPENAI_API_KEY, ok)
    /\ ss_github_token' = SidebarStore(ss_github_token, gt)
    /\ env_GITHUB_TOKEN' = SidebarStore(env_GITHUB_TOKEN, gt)
    /\ docker_checked' = TRUE
    /\ docker_available' = SidebarDockerFlag(docker_checked, docker_available, d)
    /\ sidebar_error' = SidebarDockerError(docker_checked, docker_available, d)
    /\ repo' = r
    /\ query_type' = qt
    /\ edited' = (edit # Unedited)
    /\ query' = IF edit = Unedited THEN query_template(qt, r) ELSE edit
    /\ clicked' = click
    /\ LET out == RunQuery(ok, gt, docker_available', query', r)
       IN  IF click
           THEN /\ shown_error' = out.error
                /\ message' = out.message
                /\ pc' = IF out.invoke THEN "invoke" ELSE "rendered"
                /\ env_token_before' = IF out.invoke THEN env_GITHUB_TOKEN ELSE ""
           ELSE /\ shown_error' = NoError
                /\ message' = <<>>
                /\ pc' = "rendered"
                /\ env_token_before' = ""
    /\ UNCHANGED <<result, pending, caught, spawned, released, live, server_token,
                   timed_out, exit_raised, fnVars>>

\* the script run ends: its locals are gone, the page waits for the user
ScriptEnd ==
    /\ pc \in {"rendered", "returned", "crashed"}
    /\ pc' = "idle"
    /\ openai_key' = ""
    /\ github_token' = ""
    /\ repo' = <<>>
    /\ query_type' = "Issues"
    /\ query' = <<>>
    /\ edited' = FALSE
    /\ clicked' = FALSE
    /\ sidebar_error' = None
    /\ shown_error' = NoError
    /\ env_token_before' = ""
    /\ result' = NoResult
    /\ message' = <<>>
    /\ pending' = NoOutcome
    /\ caught' = NoException
    /\ spawned' = 0
    /\ released' = 0
    /\ server_token' = ""
    /\ timed_out' = FALSE
    /\ exit_raised' = FALSE
    /\ UNCHANGED <<sessionVars, envVars, docker, live, fnVars>>

(***************************************************************************)
(* run_github_agent                                                        *)
(***************************************************************************)
Raise(e) == [kind |-> "raise", type |-> e.type, detail |-> e.detail, content |-> ""]
Return(text) == [kind |-> "return", type |-> "", detail |-> "", content |-> text]
\* asyncio.wait_for cancels agent.arun and raises asyncio.TimeoutError
WaitForTimeout == [type |-> "TimeoutError", detail |-> ""]

\* lines 189-209: the credential checks, then the launch parameters with
\* GITHUB_PERSONAL_ACCESS_TOKEN taken from the environment
InvokerStart ==
    /\ pc = "invoke"
    /\ LET missing == MissingCredential(env_GITHUB_TOKEN, env_OPENAI_API_KEY)
       IN  IF missing # NoMessage
           THEN /\ result' = missing
                /\ pc' = "returned"
                /\ server_token' = server_token
           ELSE /\ result' = result
                /\ pc' = "enter"
                /\ server_token' = env_GITHUB_TOKEN
    /\ UNCHANGED <<sessionVars, envVars, docker, localVars, message, pending, caught,
                   spawned, released, live, timed_out, exit_raised, fnVars>>

\* line 211, MCPTools.__aenter__: the subprocess is launched and the session
\* bound, or the attempt raises and there is no session to release
SessionEnter ==
    /\ pc = "enter"
    /\ spawned' = spawned + 1
    /\ \E outcome \in {Return("")} \cup {Raise(e) : e \in Exceptions} :
          IF outcome.kind = "return"
          THEN /\ live' = TRUE
               /\ pc' = "body"
               /\ caught' = caught
               /\ result' = result
          ELSE /\ live' = FALSE
               /\ caught' = [type |-> outcome.type, detail |-> outcome.detail]
               /\ result' = ExceptMessage(caught')
               /\ pc' = IF result' = Uncaught THEN "crashed" ELSE "returned"
    /\ UNCHANGED <<sessionVars, envVars, docker, localVars, message, pending,
                   released, server_token, timed_out, exit_raised, fnVars>>

\* lines 212-280, the body of the async with: the agent answers, the wait
\* times out, or building or running the agent raises
AgentRun ==
    /\ pc = "body"
    /\ \E outcome \in {Return(t) : t \in AgentTexts}
                        \cup {Raise(WaitForTimeout)}
                        \cup {Raise(e) : e \in Exceptions} :
          /\ pending' = outcome
          /\ timed_out' = (outcome = Raise(WaitForTimeout))
    /\ pc' = "exit"
    /\ UNCHANGED <<sessionVars, envVars, docker, localVars, result, message, caught,
                   spawned, released, live, server_token, exit_raised, fnVars>>

\* variant: the session closed by a call at the end of the body, which an
\* exception skips
SessionExitOnReturnOnly ==
    /\ pc = "exit"
    /\ released' = IF pending.kind = "return" THEN released + 1 ELSE released
    /\ live' = IF pending.kind = "return" THEN FALSE ELSE live
    /\ exit_raised' = FALSE
    /\ IF pending.kind = "return"
       THEN /\ caught' = caught
            /\ result' = <<pending.content>>
       ELSE /\ caught' = [type |-> pending.type, detail |-> pending.detail]
            /\ result' = ExceptMessage(caught')
    /\ pc' = IF result' = Uncaught THEN "crashed" ELSE "returned"
    /\ UNCHANGED <<sessionVars, envVars, docker, localVars, message, pending,
                   spawned, server_token, timed_out, fnVars>>

\* MCPTools.__aexit__ as the body is left by return or by exception: the
\* session is closed and the subprocess terminated; an exception raised here
\* replaces the one in flight.  Then the except clauses, or the return.
SessionExit ==
    /\ pc = "exit"
    /\ released' = released + 1
    /\ live' = FALSE
    /\ \E closing \in {Return("")} \cup {Raise(e) : e \in Exceptions} :
          LET final == IF closing.kind = "raise" THEN closing ELSE pending
          IN  /\ exit_raised' = (closing.kind = "raise")
              /\ IF final.kind = "return"
                 THEN /\ caught' = caught
                      /\ result' = <<final.content>>
                 ELSE /\ caught' = [type |-> final.type, detail |-> final.detail]
                      /\ result' = ExceptMessage(caught')
    /\ pc' = IF result' = Uncaught THEN "crashed" ELSE "returned"
    /\ UNCHANGED <<sessionVars, envVars, docker, localVars, message, pending,
                   spawned, server_token, timed_out, fnVars>>

Next ==
    \/ /\ pc = "idle"
       /\ \E ok \in OpenAIKeys, gt \in GitHubTokens, r \in Repos, qt \in QueryTypes,
             edit \in Edits, click \in BOOLEAN, d \in DockerStates :
               ScriptRun(ok, gt, r, qt, edit, click, d)
    \/ ScriptEnd
    \/ InvokerStart
    \/ SessionEnter
    \/ AgentRun
    \/ SessionExit

Spec == Init /\ [][Next]_vars

(***************************************************************************)
(* run_github_agent called on its own, with any environment                *)
(***************************************************************************)
InvokerMessages == {T_Issues, QuerySummarize}

InitInvoker ==
    /\ ss_openai_key = ""
    /\ ss_github_token = ""
    /\ docker_checked = FALSE
    /\ docker_available = FALSE
    /\ env_OPENAI_API_KEY \in OpenAIKeys
    /\ env_GITHUB_TOKEN \in GitHubTokens
    /\ docker \in DockerStates
    /\ LocalsInit
    /\ InvokerInit
    /\ pc = "idle"
    /\ FnIdle

\* asyncio.run(run_github_agent(m))
CallInvoker(m) ==
    /\ pc = "idle"
    /\ pc' = "invoke"
    /\ message' = m
    /\ result' = NoResult
    /\ pending' = NoOutcome
    /\ caught' = NoException
    /\ spawned' = 0
    /\ released' = 0
    /\ server_token' = ""
    /\ timed_out' = FALSE
    /\ exit_raised' = FALSE
    /\ UNCHANGED <<sessionVars, envVars, docker, localVars, live, fnVars>>

\* the caller has the result
InvokerDone ==
    /\ pc \in {"returned", "crashed"}
    /\ pc' = "idle"
    /\ UNCHANGED <<sessionVars, envVars, docker, localVars, result, invokerVars, fnVars>>

NextInvoker ==
    \/ /\ pc = "idle"
       /\ \E m \in InvokerMessages : CallInvoker(m)
    \/ InvokerStart
    \/ SessionEnter
    \/ AgentRun
    \/ SessionExit
    \/ InvokerDone

SpecInvoker == InitInvoker /\ [][NextInvoker]_vars

(***************************************************************************)
(* validate_repo_format on every short string                              *)
(***************************************************************************)
RepoAlphabet == {"a", "1", "_", "-", ".", "/", " ", "\n"}

InitValidate ==
    /\ ss_openai_key = ""
    /\ ss_github_token = ""
    /\ docker_checked = FALSE
    /\ docker_available = FALSE
    /\ env_OPENAI_API_KEY = ""
    /\ env_GITHUB_TOKEN = ""
    /\ docker = "running"
    /\ LocalsInit
    /\ InvokerInit
    /\ pc = "off"
    /\ fn_repo \in StringsUpTo(RepoAlphabet, MaxRepoLen)
    /\ fn_query = <<>>
    /\ fn_out = <<>>
    /\ fn_again = <<>>
    /\ fn_pc = "input"

Validate ==
    /\ fn_pc = "input"
    /\ fn_out' = <<validate_repo_format(fn_repo).valid, validate_repo_format(fn_repo).error>>
    /\ fn_pc' = "validated"
    /\ UNCHANGED <<sessionVars, envVars, docker, localVars, result, pc, invokerVars,
                   fn_repo, fn_query, fn_again>>

NextValidate == Validate

SpecValidate == InitValidate /\ [][NextValidate]_vars

(***************************************************************************)
(* The suffix injection applied to a query, and again to its own output    *)
(***************************************************************************)
InjectAlphabet == {"a", "b", "/", " "}

InitInject ==
    /\ ss_openai_key = ""
    /\ ss_github_token = ""
    /\ docker_checked = FALSE
    /\ docker_available = FALSE
    /\ env_OPENAI_API_KEY = ""
    /\ env_GITHUB_TOKEN = ""
    /\ docker = "running"
    /\ LocalsInit
    /\ InvokerInit
    /\ pc = "off"
    /\ fn_repo \in {r \in StringsUpTo(InjectAlphabet, MaxRefLen) :
                        validate_repo_format(r).valid}
    /\ fn_query \in StringsUpTo(InjectAlphabet, MaxQueryLen) \ {<<>>}
    /\ fn_out = <<>>
    /\ fn_again = <<>>
    /\ fn_pc = "input"

Inject ==
    /\ fn_pc = "input"
    /\ fn_out' = InjectRepo(fn_query, fn_repo)
    /\ fn_pc' = "injected"
    /\ UNCHANGED <<sessionVars, envVars, docker, localVars, result, pc, invokerVars,
                   fn_repo, fn_query, fn_again>>

InjectAgain ==
    /\ fn_pc = "injected"
    /\ fn_again' = InjectRepo(fn_out, fn_repo)
    /\ fn_pc' = "reinjected"
    /\ UNCHANGED <<sessionVars, envVars, docker, localVars, result, pc, invokerVars,
                   fn_repo, fn_query, fn_out>>

NextInject == Inject \/ InjectAgain

SpecInject == InitInject /\ [][NextInject]_vars

(***************************************************************************)
(* Properties                                                              *)
(***************************************************************************)
\* run_github_agent has been called in this script run
Called == pc \in {"invoke", "enter", "body", "exit", "returned", "crashed"}
\* the script run has gone through the button handler
Handled == pc # "idle" /\ clicked

\* C1: a run action checks provider key, GitHub token, tool availability,
\* query and (if a repository is entered) repository format in that order;
\* the first failing check shows its error and run_github_agent is not
\* called; it is called exactly when every check passed.
C1_GatingOrder ==
    /\ Called => clicked
    /\ Handled =>
        LET keyOk    == openai_key # ""
            tokenOk  == github_token # ""
            toolOk   == docker_available
            queryOk  == query # <<>>
            repoOk   == repo = <<>> \/ validate_repo_format(repo).valid
        IN  /\ ~keyOk => shown_error = ErrNoOpenAIKey /\ ~Called
            /\ keyOk /\ ~tokenOk => shown_error = ErrNoGitHubToken /\ ~Called
            /\ keyOk /\ tokenOk /\ ~toolOk => shown_error = ErrNoDocker /\ ~Called
            /\ keyOk /\ tokenOk /\ toolOk /\ ~queryOk =>
                    shown_error = ErrNoQuery /\ ~Called
            /\ keyOk /\ tokenOk /\ toolOk /\ queryOk /\ ~repoOk =>
                    /\ shown_error = <<"Invalid repository format: ",
                                       validate_repo_format(repo).error>>
                    /\ ~Called
            /\ keyOk /\ tokenOk /\ toolOk /\ queryOk /\ repoOk =>
                    Called /\ shown_error = NoError

\* C1 witness: every check passes but the last, the repository format
C1_Witness ==
    /\ Handled
    /\ openai_key # "" /\ github_token # "" /\ docker_available /\ query # <<>>
    /\ repo = RepoNoSlash
    /\ shown_error = <<"Invalid repository format: ", MsgRepoFormat>>
    /\ pc = "rendered"

\* C2 (as stated): whenever the status check would return a non-zero exit
\* at the time of a run action, the run shows an error and run_github_agent
\* is not called, whatever happened earlier in the session.
C2_RunRevalidatesDocker ==
    Handled /\ docker = "stopped" =>
        /\ check_docker_available(docker) = [available |-> FALSE, error |-> MsgDockerNotRunning]
        /\ ~Called
        /\ shown_error # NoError

\* C3: run_github_agent called with an empty GitHub token or provider key
\* returns the missing-credential message at once; no subprocess is
\* launched and no session exists.
C3_MissingCredentialNoSpawn ==
    (env_GITHUB_TOKEN = "" \/ env_OPENAI_API_KEY = "") =>
        /\ pc \in {"idle", "invoke", "returned"}
        /\ spawned = 0
        /\ released = 0
        /\ ~live
        /\ pending = NoOutcome
        /\ pc = "returned" =>
              result = IF env_GITHUB_TOKEN = "" THEN MsgNoToken ELSE MsgNoKey

C3_Witness ==
    /\ pc = "returned"
    /\ env_GITHUB_TOKEN = ""
    /\ env_OPENAI_API_KEY # ""
    /\ result = MsgNoToken
    /\ spawned = 0

\* the body of the async with was entered, so the session was acquired
Acquired == pc \in {"body", "exit"} \/ pending # NoOutcome

C5_FailuresBecomeMessages ==
    /\ pc # "crashed"
    /\ result # Uncaught
    /\ pc = "returned" => result # NoResult
    /\ pc = "returned" /\ caught # NoException =>
          LET t == caught.type
              d == caught.detail
          IN  /\ t = "TimeoutError" => result = MsgTimeout
              /\ t \in {"ConnectionError", "ConnectionRefusedError"} =>
                    result = MsgConnection(d)
              /\ t = "FileNotFoundError" => result = MsgNoDockerCommand
              /\ t = "PermissionError" => result = MsgPermission(d)
              /\ t = "ValueError" => result = MsgValue(d)
              /\ t = "KeyError" => result = MsgKey(d)
              /\ t \in {"OSError", "RuntimeError"} => result = MsgUnexpected(t, d)
    /\ Cardinality({MsgTimeout[1], MsgConnection("")[1], MsgNoDockerCommand[1],
                    MsgPermission("")[1], MsgValue("")[1], MsgKey("")[1],
                    MsgUnexpected("", "")[1]}) = 7

\* C5 witness: session teardown raised a KeyError after the agent had
\* answered, and the caller got the missing-configuration message
C5_Witness ==
    /\ pc = "returned"
    /\ pending.kind = "return"
    /\ exit_raised
    /\ caught = [type |-> "KeyError", detail |-> "d1"]
    /\ result = MsgKey("d1")

\* the claim's pattern: exactly one slash, owner in [A-Za-z0-9_-]+, name in
\* [A-Za-z0-9_.-]+, nothing else
IsOwnerSlashName(s) ==
    /\ Cardinality({i \in 1..Len(s) : s[i] = "/"}) = 1
    /\ \E k \in 2..(Len(s) - 1) :
          /\ s[k] = "/"
          /\ \A i \in 1..(k - 1) : s[i] \in Letters \cup Digits \cup {"_", "-"}
          /\ \A i \in (k + 1)..Len(s) : s[i] \in Letters \cup Digits \cup {"_", ".", "-"}

\* C6 (as stated): validate_repo_format returns (True, None) exactly for the
\* strings owner/name, and (False, non-empty message) for all others, the
\* message for the empty string being "Repository cannot be empty".
C6_ValidIffOwnerSlashName ==
    fn_pc = "validated" =>
        /\ fn_out[1] = IsOwnerSlashName(fn_repo)
        /\ fn_out[1] => fn_out[2] = None
        /\ ~fn_out[1] => fn_out[2] \notin {None, ""}
        /\ fn_repo = <<>> => fn_out = <<FALSE, MsgRepoEmpty>>

\* C7: with a non-empty reference the injection leaves a query that
\* already contains the reference unchanged, appends exactly " in {repo}"
\* otherwise, never adds an occurrence of the reference to a query that has
\* one, and applied to its own output changes nothing.
C7_InjectionIdempotent ==
    /\ fn_pc \in {"injected", "reinjected"} =>
          /\ Contains(fn_query, fn_repo) =>
                /\ fn_out = fn_query
                /\ Occurrences(fn_out, fn_repo) = Occurrences(fn_query, fn_repo)
          /\ ~Contains(fn_query, fn_repo) =>
                /\ fn_out = fn_query \o <<" ", "i", "n", " ">> \o fn_repo
                /\ Occurrences(fn_out, fn_repo) = 1
    /\ fn_pc = "reinjected" => fn_again = fn_out

\* C7 witnesses: one query that holds the reference and one that does not
C7_Witness ==
    /\ fn_pc = "reinjected"
    /\ fn_repo = <<"a", "/", "b">>
    /\ fn_query = <<" ", "a", "/", "b">>
    /\ fn_again = fn_query

\* the instruction reaches run_github_agent with the template untouched
\* and a repository entered
UneditedScoped == Called /\ repo # <<>> /\ ~edited /\ query_type # "Custom"

\* C8 (as stated): for every category but Custom, an unedited query and a
\* valid repository give the unscoped template text followed by
\* " in {repo}".
C8_UnscopedPlusSuffix ==
    UneditedScoped => message = UnscopedText(query_type) \o InSep \o repo

\* C8 (amended): the instruction is the category's repository-scoped text
\* followed by " in {repo}", with the reference occurring once; that text
\* is the unscoped template except for Branch Analysis and Releases.
C8_ScopedPlusSuffix ==
    UneditedScoped =>
        /\ Occurrences(message, repo) = 1
        /\ query_type \notin {"Branch Analysis", "Releases"} =>
              message = UnscopedText(query_type) \o InSep \o repo
        /\ query_type = "Branch Analysis" => message = T_BranchesScoped \o InSep \o repo
        /\ query_type = "Releases" => message = T_ReleasesScoped \o InSep \o repo
        /\ query_type = "Issues" /\ repo = RepoOctocat =>
              message = T_Issues \o <<" ", "i", "n", " ">> \o RepoOctocat

C8_Witness ==
    /\ UneditedScoped
    /\ query_type = "Branch Analysis"
    /\ repo = RepoOctocat
    /\ message = T_BranchesScoped \o InSep \o RepoOctocat

\* s holds "in " followed at once by an owner/name reference
HasScopingClause(s) ==
    \E i \in 1..Len(s) :
        /\ i + 2 <= Len(s)
        /\ SubSeq(s, i, i + 2) = <<"i", "n", " ">>
        /\ \E n \in 3..(Len(s) - (i + 2)) :
              OwnerSlashName(SubSeq(s, i + 3, i + 2 + n), n)

\* C9: with no repository entered the instruction is the query text as it
\* is, for every category; the unedited templates hold no scoping clause,
\* and Custom free text goes through verbatim.
C9_NoRepoNoSuffix ==
    Called /\ repo = <<>> =>
        /\ message = query
        /\ ~edited /\ query_type # "Custom" =>
              /\ ~HasScopingClause(message)
              /\ ~Contains(message, <<"/">>)
        /\ query_type = "Custom" => edited /\ message = query

C9_Witness ==
    /\ Called
    /\ repo = <<>>
    /\ query_type = "Custom"
    /\ message = QuerySummarize

\* C10: whenever the controller calls run_github_agent, the environment's
\* GitHub token and provider key are non-empty and are the values in the
\* form, the missing-credential branch is not taken, and the tool-server
\* gets the token in the form, not an earlier one.
C10_InvokerSeesCurrentCredentials ==
    Called =>
        /\ env_GITHUB_TOKEN # "" /\ env_GITHUB_TOKEN = github_token
        /\ env_OPENAI_API_KEY # "" /\ env_OPENAI_API_KEY = openai_key
        /\ result \notin {MsgNoToken, MsgNoKey}
        /\ pc # "invoke" => server_token = github_token

\* C10 witness: another token was in the environment when the run started
C10_Witness ==
    /\ pc = "body"
    /\ env_token_before = "g1"
    /\ github_token = "g2"
    /\ server_token = "g2"

====
